---- MODULE Spec2Model ----
(***************************************************************************)
(* Model of io_scene_vox.py, the MagicaVoxel VOX importer.                 *)
(*                                                                         *)
(* The module holds five state machines over one set of variables:         *)
(*   SpecMesh   VoxelObject.__init__ and VoxelObject.generate              *)
(*   SpecGraph  solve_scene_graph and its inner traverse_scene_graph       *)
(*   SpecRot    the nTRN frame loop, parse_rotation_matrix and             *)
(*              rotation_to_euler                                          *)
(*   SpecMatl   the MATL branch of import_vox (read_dict and the key loop) *)
(*   SpecImport ImportVox.execute and import_vox over the bytes of files   *)
(* A specification leaves the variables of the other machines untouched.   *)
(***************************************************************************)
EXTENDS Integers, Sequences, FiniteSets, TLC

VARIABLES
    pc,                 \* position of the running machine
    \* ---- VoxelObject ----
    voxelList,          \* the Voxels argument of VoxelObject.__init__
    voxels,             \* self.voxels, a dict in insertion order
    used_colors,        \* self.used_colors
    colIdx,             \* position of "for Col in self.used_colors"
    keyIdx,             \* position of "for key in self.voxels"
    verts,              \* verts of the color being processed
    faces,              \* faces of the color being processed
    faceTags,           \* history: (voxel, direction) each face was made for
    meshes,             \* the mesh.from_pydata calls made so far
    \* ---- solve_scene_graph ----
    transforms,         \* {node id: [child id, translation, rotation]}
    groups,             \* {node id: [child ids]}
    shapes,             \* {node id: [model ids]}
    models,             \* the keys of the models dict
    described,          \* node ids whose chunks have been read
    stack,              \* call stack of traverse_scene_graph
    transformed_models, \* the list solve_scene_graph builds
    returned,           \* TRUE once solve_scene_graph has returned its list
    \* ---- nTRN / rotation ----
    frames,             \* the frame dict of the nTRN chunk, in order
    frameIdx,           \* position of "for key in frames"
    trn,                \* transforms[id] of the node being decoded
    matrix,             \* the matrix parse_rotation_matrix returned
    \* ---- MATL ----
    wire,               \* the dictionary entries of the MATL payload
    mat_id,             \* the material id of the chunk
    mat_dict,           \* read_dict(content)
    mat_type,           \* the current kind
    matIdx,             \* position of "for key in mat_dict"
    materials,          \* the material table
    materialsBefore,    \* history: the table when the current chunk began
    fileLeft,           \* what is left of the file, in chunks and entries
    \* ---- ImportVox.execute / import_vox ----
    ipc,                \* position in execute and import_vox
    options,            \* the operator properties import_vox has read
    numPaths,           \* len(paths)
    pathIdx,            \* position of "for path in paths"
    started,            \* history: positions of the paths import_vox was called for
    header,             \* the bytes of the file ahead of its first chunk
    chunksLeft,         \* how many more chunks the file may hold
    name,               \* name of the chunk read_chunk returned
    chunkContent,       \* content of the chunk: what the decoder has not read
    size,               \* size, <<>> while unbound
    grids,              \* the VoxelObjects of models, grids[k + 1] being models[k]
    palette,            \* palette
    rgbaSeen,           \* history: the payloads of the RGBA chunks of the file
    sink,               \* history: the calls made on bpy.data and the scene
    sinkAtCall,         \* history: Len(sink) when import_vox was called
    error,              \* the exception that left import_vox, "" if none
    genIdx              \* position of "for model in transformed_models"

meshVars  == <<voxelList, voxels, used_colors, colIdx, keyIdx, verts, faces,
               faceTags, meshes>>
graphVars == <<transforms, groups, shapes, models, described, stack,
               transformed_models, returned>>
rotVars   == <<frames, frameIdx, trn, matrix>>
matlVars  == <<wire, mat_id, mat_dict, mat_type, matIdx, materials,
               materialsBefore, fileLeft>>
importVars == <<ipc, options, numPaths, pathIdx, started, header, chunksLeft,
                name, chunkContent, size, grids, palette, rgbaSeen, sink,
                sinkAtCall, error, genIdx>>
vars      == <<pc, meshVars, graphVars, rotVars, matlVars, importVars>>

----------------------------------------------------------------------------
(* Generic helpers                                                         *)

None == "None"

Range(s) == {s[i] : i \in 1..Len(s)}

SeqsUpTo(S, n) == UNION {[1..k -> S] : k \in 0..n}

\* Python "x in list"
InList(x, s) == \E i \in 1..Len(s) : s[i] = x

\* A Python dict is kept as the sequence of its <<key, value>> items in
\* insertion order; assigning an existing key keeps the key's place.
DictHas(d, k) == \E i \in 1..Len(d) : d[i][1] = k

DictGet(d, k) == d[CHOOSE i \in 1..Len(d) : d[i][1] = k][2]

DictSet(d, k, v) ==
    IF DictHas(d, k)
    THEN [i \in 1..Len(d) |-> IF d[i][1] = k THEN <<k, v>> ELSE d[i]]
    ELSE Append(d, <<k, v>>)

----------------------------------------------------------------------------
(* Vec3 and VoxelObject                                                    *)

\* faulty variant of Index: the factor is 255, the largest coordinate
Index_Factor255(pos) == pos[1] + pos[2] * 255 + pos[3] * 255 * 255

\* Vec3._index
Index(pos) == pos[1] + pos[2] * 256 + pos[3] * 256 * 256

\* VoxelObject.getVox
getVox(vx, pos) ==
    IF DictHas(vx, Index(pos)) THEN DictGet(vx, Index(pos))[2] ELSE 0

\* VoxelObject.compareVox
compareVox(vx, colA, b) == IF getVox(vx, b) = 0 THEN FALSE ELSE TRUE

\* the body of "for vox in Voxels" of VoxelObject.__init__, folded
RECURSIVE InitVoxels(_, _)
InitVoxels(list, n) ==
    IF n = 0 THEN <<>>
    ELSE DictSet(InitVoxels(list, n - 1),
                 Index(<<list[n][1], list[n][2], list[n][3]>>),
                 <<(<<list[n][1], list[n][2], list[n][3]>>), list[n][4]>>)

RECURSIVE InitUsedColors(_, _)
InitUsedColors(list, n) ==
    IF n = 0 THEN <<>>
    ELSE LET prev == InitUsedColors(list, n - 1)
         IN  IF InList(list[n][4], prev) THEN prev ELSE Append(prev, list[n][4])

\* The six neighbour tests of generate, in source order, each with the
\* neighbour offset it tests and the four vertex offsets it appends.
Directions == <<"+X", "+Y", "+Z", "-X", "-Y", "-Z">>

NeighbourOffset(d) ==
    CASE d = "+X" -> <<1, 0, 0>>
      [] d = "+Y" -> <<0, 1, 0>>
      [] d = "+Z" -> <<0, 0, 1>>
      [] d = "-X" -> <<-1, 0, 0>>
      [] d = "-Y" -> <<0, -1, 0>>
      [] d = "-Z" -> <<0, 0, -1>>

FaceOffsets(d) ==
    CASE d = "+X" -> << <<1,0,0>>, <<1,1,0>>, <<1,1,1>>, <<1,0,1>> >>
      [] d = "+Y" -> << <<1,1,0>>, <<1,1,1>>, <<0,1,1>>, <<0,1,0>> >>
      [] d = "+Z" -> << <<0,0,1>>, <<0,1,1>>, <<1,1,1>>, <<1,0,1>> >>
      [] d = "-X" -> << <<0,0,0>>, <<0,1,0>>, <<0,1,1>>, <<0,0,1>> >>
      [] d = "-Y" -> << <<0,0,0>>, <<0,0,1>>, <<1,0,1>>, <<1,0,0>> >>
      [] d = "-Z" -> << <<0,0,0>>, <<1,0,0>>, <<1,1,0>>, <<0,1,0>> >>

VAdd(a, b) == <<a[1] + b[1], a[2] + b[2], a[3] + b[3]>>

\* one "if not self.compareVox(...)" block: four verts and one face
EmitFace(vx, m, pos, colID, d) ==
    IF ~compareVox(vx, colID, VAdd(pos, NeighbourOffset(d)))
    THEN LET v2 == m.verts \o [k \in 1..4 |-> VAdd(pos, FaceOffsets(d)[k])]
         IN  [verts |-> v2,
              faces |-> Append(m.faces, <<Len(v2) - 4, Len(v2) - 3,
                                          Len(v2) - 2, Len(v2) - 1>>),
              tags  |-> Append(m.tags, <<pos, d>>)]
    ELSE m

RECURSIVE EmitFaces(_, _, _, _, _)
EmitFaces(vx, m, pos, colID, n) ==
    IF n = 0 THEN m
    ELSE EmitFace(vx, EmitFaces(vx, m, pos, colID, n - 1), pos, colID,
                  Directions[n])

----------------------------------------------------------------------------
(* Bounds of the inputs                                                    *)

MaxVoxels == 2

\* positions an XYZI chunk can carry (each coordinate is one byte)
VoxelPositions ==
    {<<0, 0, 0>>, <<1, 0, 0>>, <<255, 0, 0>>, <<0, 1, 0>>, <<0, 0, 1>>}

VoxelColors == {0, 1, 2}

VoxelTuples == {<<p[1], p[2], p[3], c>> : p \in VoxelPositions, c \in VoxelColors}

\* the XYZI list of a SIZE (2,2,2) model filled with color 1
Cube ==
    << <<0, 0, 0, 1>>, <<1, 0, 0, 1>>, <<0, 1, 0, 1>>, <<1, 1, 0, 1>>,
       <<0, 0, 1, 1>>, <<1, 0, 1, 1>>, <<0, 1, 1, 1>>, <<1, 1, 1, 1>> >>

\* the Voxels arguments VoxelObject is built from
VoxelLists == SeqsUpTo(VoxelTuples, MaxVoxels) \cup {Cube}

----------------------------------------------------------------------------
(* Values of the variables of a machine that is not running                *)

MeshIdle ==
    /\ voxelList = <<>>
    /\ voxels = <<>>
    /\ used_colors = <<>>
    /\ colIdx = 0
    /\ keyIdx = 0
    /\ verts = <<>>
    /\ faces = <<>>
    /\ faceTags = <<>>
    /\ meshes = <<>>

GraphIdle ==
    /\ transforms = <<>>
    /\ groups = <<>>
    /\ shapes = <<>>
    /\ models = {}
    /\ described = {}
    /\ stack = <<>>
    /\ transformed_models = <<>>
    /\ returned = FALSE

RotIdle ==
    /\ frames = <<>>
    /\ frameIdx = 0
    /\ trn = <<>>
    /\ matrix = <<>>

MatlIdle ==
    /\ wire = <<>>
    /\ mat_id = 0
    /\ mat_dict = <<>>
    /\ mat_type = None
    /\ matIdx = 0
    /\ materials = <<>>
    /\ materialsBefore = <<>>
    /\ fileLeft = 0

\* the operator properties before import_vox reads them
NoOptions == [material_type |-> "unread", organize |-> FALSE]

ImportIdle ==
    /\ ipc = "idle"
    /\ options = NoOptions
    /\ numPaths = 0
    /\ pathIdx = 0
    /\ started = {}
    /\ header = <<>>
    /\ chunksLeft = 0
    /\ name = <<>>
    /\ chunkContent = <<>>
    /\ size = <<>>
    /\ grids = <<>>
    /\ palette = <<>>
    /\ rgbaSeen = <<>>
    /\ sink = <<>>
    /\ sinkAtCall = 0
    /\ error = ""
    /\ genIdx = 0

----------------------------------------------------------------------------
(* SpecMesh: VoxelObject.__init__ and VoxelObject.generate                 *)

InitMesh ==
    /\ pc = "new"
    /\ voxelList \in VoxelLists
    /\ voxels = <<>>
    /\ used_colors = <<>>
    /\ colIdx = 0
    /\ keyIdx = 0
    /\ verts = <<>>
    /\ faces = <<>>
    /\ faceTags = <<>>
    /\ meshes = <<>>
    /\ GraphIdle /\ RotIdle /\ MatlIdle /\ ImportIdle

\* VoxelObject.__init__
VoxelObjectInit ==
    /\ pc = "new"
    /\ voxels' = InitVoxels(voxelList, Len(voxelList))
    /\ used_colors' = InitUsedColors(voxelList, Len(voxelList))
    /\ pc' = "built"
    /\ UNCHANGED <<voxelList, colIdx, keyIdx, verts, faces, faceTags, meshes>>
    /\ UNCHANGED <<graphVars, rotVars, matlVars, importVars>>

\* generate: the empty-object return, or entry into the loop over colors
GenerateBegin ==
    /\ pc = "built"
    /\ IF Len(used_colors) = 0
       THEN /\ pc' = "generated"
            /\ colIdx' = colIdx
       ELSE /\ pc' = "color"
            /\ colIdx' = 1
    /\ keyIdx' = 1
    /\ verts' = <<>>
    /\ faces' = <<>>
    /\ faceTags' = <<>>
    /\ UNCHANGED <<voxelList, voxels, used_colors, meshes>>
    /\ UNCHANGED <<graphVars, rotVars, matlVars, importVars>>

\* generate: one iteration of "for key in self.voxels" for the current Col
GenerateVoxel ==
    /\ pc = "color"
    /\ keyIdx <= Len(voxels)
    /\ LET pos   == voxels[keyIdx][2][1]
           colID == voxels[keyIdx][2][2]
           Col   == used_colors[colIdx]
           m     == IF colID # Col
                    THEN [verts |-> verts, faces |-> faces, tags |-> faceTags]
                    ELSE EmitFaces(voxels,
                                   [verts |-> verts, faces |-> faces,
                                    tags |-> faceTags],
                                   pos, colID, Len(Directions))
       IN  /\ verts' = m.verts
           /\ faces' = m.faces
           /\ faceTags' = m.tags
    /\ keyIdx' = keyIdx + 1
    /\ UNCHANGED <<pc, voxelList, voxels, used_colors, colIdx, meshes>>
    /\ UNCHANGED <<graphVars, rotVars, matlVars, importVars>>

\* generate: mesh.from_pydata(verts, [], faces), then the next Col or the end
GenerateMesh ==
    /\ pc = "color"
    /\ keyIdx > Len(voxels)
    /\ meshes' = Append(meshes, [col |-> used_colors[colIdx], verts |-> verts,
                                 faces |-> faces, tags |-> faceTags])
    /\ IF colIdx < Len(used_colors)
       THEN /\ colIdx' = colIdx + 1
            /\ pc' = "color"
       ELSE /\ colIdx' = colIdx
            /\ pc' = "generated"
    /\ keyIdx' = 1
    /\ verts' = <<>>
    /\ faces' = <<>>
    /\ faceTags' = <<>>
    /\ UNCHANGED <<voxelList, voxels, used_colors>>
    /\ UNCHANGED <<graphVars, rotVars, matlVars, importVars>>

NextMesh ==
    \/ VoxelObjectInit
    \/ GenerateBegin
    \/ GenerateVoxel
    \/ GenerateMesh

SpecMesh == InitMesh /\ [][NextMesh]_vars

----------------------------------------------------------------------------
(* SpecGraph: solve_scene_graph                                            *)

NumNodes == 4

NumModels == 2

NodeIds == 0..(NumNodes - 1)

\* Depth at which a call of traverse_scene_graph raises RecursionError.  A
\* path without a cycle visits each node id once, so any limit above
\* NumNodes gives an acyclic graph the outcome Python's own limit gives it.
RecursionLimit == NumNodes + 1

\* model ids an nSHP chunk may list; the id NumModels is no key of models
ModelRefs == 0..NumModels

\* (translation, Euler rotation) an nTRN chunk of node n may carry.  An angle
\* is counted in quarter turns, the unit of every angle rotation_to_euler
\* returns.
TransformFrames(n) ==
    IF n = 0
    THEN {[t |-> <<0, 0, 0>>, r |-> <<0, 0, 0>>],
          [t |-> <<1, 0, 0>>, r |-> <<1, 0, 0>>]}
    ELSE {[t |-> <<0, 2, 0>>, r |-> <<0, 0, 0>>],
          [t |-> <<0, 1, -3>>, r |-> <<2, 0, -1>>]}

GroupLists == {<<2, 3>>, <<3, 2>>, <<3, 3>>}

ShapeLists == {<<0>>, <<1, 0>>, <<0, NumModels>>}

NoEntries == [T |-> {}, G |-> {}, S |-> {}]

\* what the chunks of a file say about node id n: the nTRN, nGRP and nSHP
\* entries stored under it (none, or one each)
NodeOptions(n) ==
    LET T == {<<c, f.t, f.r>> : c \in NodeIds, f \in TransformFrames(n)}
        t1 == <<3, <<1, 0, 0>>, <<0, 0, 0>>>>
    IN  {NoEntries}
        \cup {[T |-> {t}, G |-> {}, S |-> {}] : t \in T}
        \cup {[T |-> {}, G |-> {g}, S |-> {}] : g \in GroupLists}
        \cup {[T |-> {}, G |-> {}, S |-> {m}] : m \in ShapeLists}
        \cup {[T |-> {t1}, G |-> {}, S |-> {<<0>>}],
              [T |-> {t1}, G |-> {<<2, 3>>}, S |-> {}],
              [T |-> {}, G |-> {<<3, 3>>}, S |-> {<<0>>}]}

InitGraph ==
    /\ pc = "parse"
    /\ transforms = <<>>
    /\ groups = <<>>
    /\ shapes = <<>>
    /\ described = {}
    /\ models = 0..(NumModels - 1)
    /\ stack = <<>>
    /\ transformed_models = <<>>
    /\ returned = FALSE
    /\ MeshIdle /\ RotIdle /\ MatlIdle /\ ImportIdle

\* the branch of traverse_scene_graph that current_id takes
NodeKind(id) ==
    IF id \in DOMAIN transforms THEN "transform"
    ELSE IF id \in DOMAIN groups THEN "group"
    ELSE IF id \in DOMAIN shapes THEN "shape"
    ELSE "none"

\* faulty variant of AddLocation: the node's translation replaces the accumulated one
AddLocation_Replace(current_location, new_location) == new_location

\* current_location = Vec3(current_location.x + new_location.x, ...)
AddLocation(current_location, new_location) ==
    <<current_location[1] + new_location[1],
      current_location[2] + new_location[2],
      current_location[3] + new_location[3]>>

\* current_rotation = [sum(pair) for pair in zip(new_rotation, current_rotation)]
AddRotation(new_rotation, current_rotation) ==
    [k \in 1..3 |-> new_rotation[k] + current_rotation[k]]

\* faulty variant of GroupChildren: the children are visited last to first
GroupChildren_Reversed(id) ==
    [k \in 1..Len(groups[id]) |-> groups[id][Len(groups[id]) + 1 - k]]

\* the child ids a group's loop visits, in order
GroupChildren(id) == groups[id]

\* the model ids a shape's loop visits, in order
ShapeModels(id) == shapes[id]

\* faulty variant of RootMissing: the root test is left out
RootMissing_Unchecked == FALSE

\* the root test of solve_scene_graph
RootMissing == 0 \notin DOMAIN transforms

\* A frame of traverse_scene_graph: its three arguments, the number of loop
\* iterations (or of calls) it has made, and, as history, the child positions
\* taken from node 0 to reach it.
Frame(loc, rot, id, ipath) ==
    [current_location |-> loc, current_rotation |-> rot, current_id |-> id,
     it |-> 0, ipath |-> ipath]

Top == stack[Len(stack)]

Advance(st) == [st EXCEPT ![Len(st)].it = @ + 1]

\* faulty variant of Call: at the depth limit the call is dropped, not raised
Call_DepthCut(loc, rot, id, i) ==
    IF Len(stack) >= RecursionLimit
    THEN /\ pc' = "traverse"
         /\ stack' = Advance(stack)
    ELSE /\ pc' = "traverse"
         /\ stack' = Append(Advance(stack), Frame(loc, rot, id, Append(Top.ipath, i)))

\* a call of traverse_scene_graph from the top frame
Call(loc, rot, id, i) ==
    IF Len(stack) >= RecursionLimit
    THEN /\ pc' = "raised"
         /\ stack' = stack
    ELSE /\ pc' = "traverse"
         /\ stack' = Append(Advance(stack), Frame(loc, rot, id, Append(Top.ipath, i)))

\* the child ids the traversal steps to from node n
Children(n) ==
    IF NodeKind(n) = "transform" THEN {transforms[n][1]}
    ELSE IF NodeKind(n) = "group" THEN Range(groups[n])
    ELSE {}

\* node ids the traversal reaches from the ids of seen in at most k steps
RECURSIVE Reached(_, _)
Reached(seen, k) ==
    IF k = 0 THEN seen
    ELSE Reached(seen \cup UNION {Children(n) : n \in seen}, k - 1)

\* ids the traversal will reach whose chunks have not been read yet
Undescribed == Reached({0}, NumNodes) \ described

\* new entry of dict d: d[key] = value
Store(d, key, value) ==
    [k \in DOMAIN d \cup {key} |-> IF k = key THEN value ELSE d[k]]

\* The nTRN, nGRP and nSHP branches of import_vox: the chunks of one node id
\* are read and stored (transforms[id] = ..., groups[id] = ..., shapes[id] =
\* ...).  The traversal reads only the entries of ids it can step to from
\* node 0, so the chunks of the other ids are left out, and the ids are taken
\* in increasing order.
ReadNodeChunks ==
    /\ pc = "parse"
    /\ Undescribed # {}
    /\ LET n == CHOOSE m \in Undescribed : \A k \in Undescribed : m <= k
       IN  /\ \E o \in NodeOptions(n) :
                /\ transforms' = IF o.T = {} THEN transforms
                                 ELSE Store(transforms, n, CHOOSE t \in o.T : TRUE)
                /\ groups' = IF o.G = {} THEN groups
                             ELSE Store(groups, n, CHOOSE g \in o.G : TRUE)
                /\ shapes' = IF o.S = {} THEN shapes
                             ELSE Store(shapes, n, CHOOSE m \in o.S : TRUE)
           /\ described' = described \cup {n}
    /\ UNCHANGED <<pc, models, stack, transformed_models, returned>>
    /\ UNCHANGED <<meshVars, rotVars, matlVars, importVars>>

\* solve_scene_graph up to its call of traverse_scene_graph
SolveStart ==
    /\ pc = "parse"
    /\ Undescribed = {}
    /\ IF RootMissing
       THEN /\ pc' = "raised"
            /\ stack' = stack
       ELSE /\ pc' = "traverse"
            /\ stack' = <<Frame(<<0, 0, 0>>, <<0, 0, 0>>, 0, <<>>)>>
    /\ UNCHANGED <<transforms, groups, shapes, models, described,
                   transformed_models, returned>>
    /\ UNCHANGED <<meshVars, rotVars, matlVars, importVars>>

\* the transform branch: accumulate, then recurse into the child
TraverseTransform ==
    /\ pc = "traverse" /\ stack # <<>>
    /\ NodeKind(Top.current_id) = "transform" /\ Top.it = 0
    /\ Call(AddLocation(Top.current_location, transforms[Top.current_id][2]),
            AddRotation(transforms[Top.current_id][3], Top.current_rotation),
            transforms[Top.current_id][1], 1)
    /\ UNCHANGED <<transforms, groups, shapes, models, described,
                   transformed_models, returned>>
    /\ UNCHANGED <<meshVars, rotVars, matlVars, importVars>>

\* the group branch: one iteration of "for child_id in groups[current_id]"
TraverseGroup ==
    /\ pc = "traverse" /\ stack # <<>>
    /\ NodeKind(Top.current_id) = "group"
    /\ Top.it < Len(GroupChildren(Top.current_id))
    /\ Call(Top.current_location, Top.current_rotation,
            GroupChildren(Top.current_id)[Top.it + 1], Top.it + 1)
    /\ UNCHANGED <<transforms, groups, shapes, models, described,
                   transformed_models, returned>>
    /\ UNCHANGED <<meshVars, rotVars, matlVars, importVars>>

\* the shape branch: one iteration of "for model_id in shapes[current_id]";
\* models[model_id] raises KeyError for an id that is no key of models
TraverseShape ==
    /\ pc = "traverse" /\ stack # <<>>
    /\ NodeKind(Top.current_id) = "shape"
    /\ Top.it < Len(ShapeModels(Top.current_id))
    /\ LET model_id == ShapeModels(Top.current_id)[Top.it + 1]
       IN  IF model_id \notin models
           THEN /\ pc' = "raised"
                /\ stack' = stack
                /\ transformed_models' = transformed_models
           ELSE /\ pc' = "traverse"
                /\ stack' = Advance(stack)
                /\ transformed_models' =
                     Append(transformed_models,
                            [model |-> model_id,
                             rotation |-> Top.current_rotation,
                             position |-> Top.current_location,
                             ipath |-> Top.ipath,
                             entry |-> Top.it + 1])
    /\ UNCHANGED <<transforms, groups, shapes, models, described, returned>>
    /\ UNCHANGED <<meshVars, rotVars, matlVars, importVars>>

\* traverse_scene_graph returns: its branch is done, or no branch took the id
TraverseReturn ==
    /\ pc = "traverse" /\ stack # <<>>
    /\ CASE NodeKind(Top.current_id) = "transform" -> Top.it = 1
         [] NodeKind(Top.current_id) = "group" ->
                Top.it = Len(GroupChildren(Top.current_id))
         [] NodeKind(Top.current_id) = "shape" ->
                Top.it = Len(ShapeModels(Top.current_id))
         [] OTHER -> TRUE
    /\ stack' = SubSeq(stack, 1, Len(stack) - 1)
    /\ UNCHANGED <<pc, transforms, groups, shapes, models, described,
                   transformed_models, returned>>
    /\ UNCHANGED <<meshVars, rotVars, matlVars, importVars>>

\* return transformed_models
SolveReturn ==
    /\ pc = "traverse" /\ stack = <<>>
    /\ pc' = "done"
    /\ returned' = TRUE
    /\ UNCHANGED <<transforms, groups, shapes, models, described, stack,
                   transformed_models>>
    /\ UNCHANGED <<meshVars, rotVars, matlVars, importVars>>

NextGraph ==
    \/ ReadNodeChunks
    \/ SolveStart
    \/ TraverseTransform
    \/ TraverseGroup
    \/ TraverseShape
    \/ TraverseReturn
    \/ SolveReturn

SpecGraph == InitGraph /\ [][NextGraph]_vars

\* solve_scene_graph runs on one thread from call to return: a step that can
\* be taken is taken
SpecGraphFair == SpecGraph /\ WF_vars(NextGraph)

----------------------------------------------------------------------------
(* SpecRot: the nTRN frame loop, parse_rotation_matrix, rotation_to_euler  *)

\* bin(n)[2:] for n >= 0: the binary digits of n, most significant first
RECURSIVE Bin(_)
Bin(n) ==
    IF n < 2 THEN <<IF n = 1 THEN "1" ELSE "0">>
    ELSE Append(Bin(n \div 2), IF n % 2 = 1 THEN "1" ELSE "0")

\* str.zfill(width)
RECURSIVE ZFill(_, _)
ZFill(str, width) == IF Len(str) >= width THEN str ELSE ZFill(<<"0">> \o str, width)

\* int(str, 2)
RECURSIVE IntBase2(_)
IntBase2(str) ==
    IF Len(str) = 0 THEN 0
    ELSE 2 * IntBase2(SubSeq(str, 1, Len(str) - 1))
         + (IF str[Len(str)] = "1" THEN 1 ELSE 0)

\* str[-k]
FromEnd(str, k) == str[Len(str) - k + 1]

\* str[-hi:-lo] (lo = 0 stands for the open end str[-hi:])
SliceFromEnd(str, hi, lo) == SubSeq(str, Len(str) - hi + 1, Len(str) - lo)

\* byte_string = bin(int(byte))[2:].zfill(8)
ByteString(byte) == ZFill(Bin(byte), 8)

first_row_coord(byte) == IntBase2(SliceFromEnd(ByteString(byte), 2, 0))

second_row_coord(byte) == IntBase2(SliceFromEnd(ByteString(byte), 4, 2))

\* list.remove(x): the list without the first x
ListRemove(list, x) ==
    LET i == CHOOSE j \in 1..Len(list) :
                 list[j] = x /\ \A k \in 1..(j - 1) : list[k] # x
    IN  SubSeq(list, 1, i - 1) \o SubSeq(list, i + 1, Len(list))

\* faulty variant of RemoveRaises: removing an absent element is not an error
RemoveRaises_Never(list, x) == FALSE

\* list.remove(x) raises ValueError when x is not in the list
RemoveRaises(list, x) == ~InList(x, list)

\* the list after list.remove(x) returned
Removed(list, x) == IF InList(x, list) THEN ListRemove(list, x) ELSE list

\* parse_rotation_matrix raises (one of its two open_rows.remove calls does)
ParseRaises(byte) ==
    \/ RemoveRaises(<<0, 1, 2>>, first_row_coord(byte))
    \/ RemoveRaises(Removed(<<0, 1, 2>>, first_row_coord(byte)),
                    second_row_coord(byte))

\* faulty variant of RowSign: the sign bits are read one place too low
RowSign_ShiftedBit(byte_string, row) ==
    IF FromEnd(byte_string, 4 + row) = "1" THEN -1 ELSE 1

\* the entry of row 0, 1, 2: -1 if byte_string[-5], [-6], [-7] is '1', else 1
RowSign(byte_string, row) ==
    IF FromEnd(byte_string, 5 + row) = "1" THEN -1 ELSE 1

\* rotation_matrix[row][col] = value, rows and columns counted from 0
SetEntry(m, row, col, value) == [m EXCEPT ![row + 1][col + 1] = value]

\* the matrix parse_rotation_matrix returns when it does not raise
ParseRotationMatrix(byte) ==
    LET byte_string == ByteString(byte)
        first  == first_row_coord(byte)
        second == second_row_coord(byte)
        open_rows == Removed(Removed(<<0, 1, 2>>, first), second)
        third  == open_rows[1]
        zero   == << <<0, 0, 0>>, <<0, 0, 0>>, <<0, 0, 0>> >>
    IN  SetEntry(SetEntry(SetEntry(zero, 0, first, RowSign(byte_string, 0)),
                          1, second, RowSign(byte_string, 1)),
                 2, third, RowSign(byte_string, 2))

\* math.atan2(y, x) in quarter turns, for the arguments rotation_to_euler
\* passes: integers of which at most one is not 0
Atan2(y, x) ==
    CASE y = 0 /\ x >= 0 -> 0
      [] y = 0 /\ x < 0  -> 2
      [] y > 0           -> 1
      [] y < 0           -> -1

\* math.sqrt of 0 and of 1
Sqrt(v) == IF v = 0 THEN 0 ELSE 1

\* rotation_to_euler, rows and columns counted from 1
rotation_to_euler(m) ==
    <<Atan2(m[3][2], m[3][3]),
      Atan2(-1 * m[3][1], Sqrt(m[3][2] * m[3][2] + m[3][3] * m[3][3])),
      Atan2(m[2][1], m[1][1])>>

\* The frame dicts of the model: the keys _r, _t and _f in any order.  A
\* value is kept as the integers of its text: one for _r (0..255) and _f,
\* three for _t.
RotationBytes == 0..255

FrameKeyOrders ==
    {o \in SeqsUpTo({"_r", "_t", "_f"}, 3) :
        \A i, j \in 1..Len(o) : i # j => o[i] # o[j]}

FrameValues(k) ==
    IF k = "_r" THEN {<<b>> : b \in RotationBytes}
    ELSE IF k = "_t" THEN {<<3, -1, 2>>}
    ELSE {<<0>>}

RECURSIVE FrameDicts(_, _)
FrameDicts(o, n) ==
    IF n = 0 THEN {<<>>}
    ELSE {Append(d, <<o[n], v>>) : d \in FrameDicts(o, n - 1),
                                   v \in FrameValues(o[n])}

InitRot ==
    /\ pc = "nTRN"
    /\ \E o \in FrameKeyOrders : frames \in FrameDicts(o, Len(o))
    /\ frameIdx = 0
    /\ trn = <<>>
    /\ matrix = <<>>
    /\ MeshIdle /\ GraphIdle /\ MatlIdle /\ ImportIdle

\* transforms[id] = [child_id, Vec3(0, 0, 0), [0, 0, 0]]
TrnBegin ==
    /\ pc = "nTRN"
    /\ trn' = <<1, <<0, 0, 0>>, <<0, 0, 0>>>>
    /\ frameIdx' = 1
    /\ pc' = "frames"
    /\ UNCHANGED <<frames, matrix>>
    /\ UNCHANGED <<meshVars, graphVars, matlVars, importVars>>

\* key == b'_r': euler = rotation_to_euler(parse_rotation_matrix(byte))
TrnRotation ==
    /\ pc = "frames" /\ frameIdx <= Len(frames)
    /\ frames[frameIdx][1] = "_r"
    /\ LET byte == frames[frameIdx][2][1]
       IN  IF ParseRaises(byte)
           THEN /\ pc' = "raised"
                /\ UNCHANGED <<trn, matrix, frameIdx>>
           ELSE /\ matrix' = ParseRotationMatrix(byte)
                /\ trn' = [trn EXCEPT ![3] = rotation_to_euler(ParseRotationMatrix(byte))]
                /\ frameIdx' = frameIdx + 1
                /\ pc' = pc
    /\ UNCHANGED frames
    /\ UNCHANGED <<meshVars, graphVars, matlVars, importVars>>

\* key == b'_t': transforms[id][1] = Vec3(int(value[0]), ...)
TrnTranslation ==
    /\ pc = "frames" /\ frameIdx <= Len(frames)
    /\ frames[frameIdx][1] = "_t"
    /\ trn' = [trn EXCEPT ![2] = frames[frameIdx][2]]
    /\ frameIdx' = frameIdx + 1
    /\ UNCHANGED <<pc, frames, matrix>>
    /\ UNCHANGED <<meshVars, graphVars, matlVars, importVars>>

\* any other key of frames
TrnOtherKey ==
    /\ pc = "frames" /\ frameIdx <= Len(frames)
    /\ frames[frameIdx][1] \notin {"_r", "_t"}
    /\ frameIdx' = frameIdx + 1
    /\ UNCHANGED <<pc, frames, trn, matrix>>
    /\ UNCHANGED <<meshVars, graphVars, matlVars, importVars>>

\* the end of "for key in frames"
TrnEnd ==
    /\ pc = "frames" /\ frameIdx > Len(frames)
    /\ pc' = "decoded"
    /\ UNCHANGED <<frames, frameIdx, trn, matrix>>
    /\ UNCHANGED <<meshVars, graphVars, matlVars, importVars>>

NextRot ==
    \/ TrnBegin
    \/ TrnRotation
    \/ TrnTranslation
    \/ TrnOtherKey
    \/ TrnEnd

SpecRot == InitRot /\ [][NextRot]_vars

----------------------------------------------------------------------------
(* SpecMatl: the MATL branch of import_vox                                 *)

\* length of the material table
NumMaterials == 255

\* Size of the MATL part of a file: one unit for each chunk and one for each
\* dictionary entry of its payload.
MaxPayload == 4

\* material ids a MATL chunk may carry
MatIds == {0, 1, 2, 256}

\* dictionary entries a MATL payload may carry, as <<key, value>>
MatlEntries ==
    {<<"_type", "_metal">>, <<"_type", "_glass">>, <<"_type", "_emit">>,
     <<"_metal", "0.7">>, <<"_alpha", "0.4">>, <<"_emit", "0.9">>,
     <<"_flux", "2">>, <<"_rough", "0.3">>, <<"_sp", "1.5">>, <<"_d", "1">>}

\* float(value), in tenths
Float(value) ==
    CASE value = "0.3" -> 3
      [] value = "0.4" -> 4
      [] value = "0.7" -> 7
      [] value = "0.9" -> 9
      [] value = "1"   -> 10
      [] value = "1.5" -> 15
      [] value = "2"   -> 20

\* [0.5, 0.0, 0.0, 0.0, 0.0, 0.0]:
\* roughness, metallic, glass, emission, specular, flux
DefaultMaterial == <<5, 0, 0, 0, 0, 0>>

\* read_dict: dict[key] = value for each entry of the payload, in order
RECURSIVE read_dict(_, _)
read_dict(content, n) ==
    IF n = 0 THEN <<>>
    ELSE DictSet(read_dict(content, n - 1), content[n][1], content[n][2])

\* materials[id - 1] as a position of 1..NumMaterials: Python counts a
\* negative index from the end of the list
MaterialRow(id) == IF id - 1 >= 0 THEN id ELSE NumMaterials + id

\* materials[id - 1] raises IndexError
MaterialRowRaises(id) == id - 1 < 0 - NumMaterials \/ id - 1 >= NumMaterials

\* the "id > 255: continue" test
MaterialIdSkipped(id) == id > 255

\* faulty variant of KindAfter: a _type key does not replace the current kind
KindAfter_Unchanged(kind, key, value) == kind

\* "if key == b'_type': mat_type = value"
KindAfter(kind, key, value) == IF key = "_type" THEN value ELSE kind

\* the if/elif chain of the key loop applied to one material record, with
\* the current kind as it is after the _type test
MaterialAfter(mat, kind, key, value) ==
    IF key = "_rough" THEN [mat EXCEPT ![1] = Float(value)]
    ELSE IF key = "_metal"
    THEN (IF kind = "_metal" THEN [mat EXCEPT ![2] = Float(value)] ELSE mat)
    ELSE IF key = "_alpha" /\ kind = "_glass" THEN [mat EXCEPT ![3] = Float(value)]
    ELSE IF key = "_emit" /\ kind = "_emit"
    THEN [mat EXCEPT ![4] = Float(value), ![6] = 10]
    ELSE IF key = "_flux" THEN [mat EXCEPT ![6] = Float(value)]
    ELSE IF key = "_sp" THEN [mat EXCEPT ![5] = Float(value) - 10]
    ELSE mat

\* faulty variant of InitialKind: the kind of the previous record stays in force
InitialKind_CarriedOver == IF mat_type = None THEN "_diffuse" ELSE mat_type

\* mat_type = b'_diffuse'
InitialKind == "_diffuse"

InitMatl ==
    /\ pc = "chunk"
    /\ wire = <<>>
    /\ mat_id = 0
    /\ mat_dict = <<>>
    /\ mat_type = None
    /\ matIdx = 0
    /\ materials = [i \in 1..NumMaterials |-> DefaultMaterial]
    /\ materialsBefore = [i \in 1..NumMaterials |-> DefaultMaterial]
    /\ fileLeft = MaxPayload
    /\ MeshIdle /\ GraphIdle /\ RotIdle /\ ImportIdle

\* a MATL chunk whose id passes the test: read_dict, mat_type = b'_diffuse'
MatlBegin ==
    /\ pc \in {"chunk", "decoded"}
    /\ fileLeft >= 1
    /\ \E id \in MatIds, content \in SeqsUpTo(MatlEntries, fileLeft - 1) :
          /\ ~MaterialIdSkipped(id)
          /\ fileLeft' = fileLeft - (1 + Len(content))
          /\ mat_id' = id
          /\ wire' = content
          /\ mat_dict' = read_dict(content, Len(content))
    /\ mat_type' = InitialKind
    /\ matIdx' = 1
    /\ materialsBefore' = materials
    /\ pc' = "keys"
    /\ UNCHANGED materials
    /\ UNCHANGED <<meshVars, graphVars, rotVars, importVars>>

\* a MATL chunk with id > 255: continue
MatlSkip ==
    /\ pc \in {"chunk", "decoded"}
    /\ \E id \in MatIds :
          /\ MaterialIdSkipped(id)
          /\ 1 <= fileLeft
          /\ fileLeft' = fileLeft - 1
          /\ mat_id' = id
    /\ pc' = "chunk"
    /\ materialsBefore' = materials
    /\ UNCHANGED <<wire, mat_dict, mat_type, matIdx, materials>>
    /\ UNCHANGED <<meshVars, graphVars, rotVars, importVars>>

\* one iteration of "for key in mat_dict"
MatlKey ==
    /\ pc = "keys" /\ matIdx <= Len(mat_dict)
    /\ LET key   == mat_dict[matIdx][1]
           value == mat_dict[matIdx][2]
           kind  == KindAfter(mat_type, key, value)
       IN  IF MaterialRowRaises(mat_id)
           THEN /\ pc' = "raised"
                /\ UNCHANGED <<mat_type, matIdx, materials>>
           ELSE /\ pc' = pc
                /\ mat_type' = kind
                /\ materials' =
                     [materials EXCEPT ![MaterialRow(mat_id)] =
                         MaterialAfter(@, kind, key, value)]
                /\ matIdx' = matIdx + 1
    /\ UNCHANGED <<wire, mat_id, mat_dict, materialsBefore, fileLeft>>
    /\ UNCHANGED <<meshVars, graphVars, rotVars, importVars>>

\* the end of "for key in mat_dict"
MatlEnd ==
    /\ pc = "keys" /\ matIdx > Len(mat_dict)
    /\ pc' = "decoded"
    /\ UNCHANGED matlVars
    /\ UNCHANGED <<meshVars, graphVars, rotVars, importVars>>

\* file.tell() reaches file_size: the parse loop ends
MatlFileEnd ==
    /\ pc \in {"chunk", "decoded"}
    /\ pc' = "parsed"
    /\ UNCHANGED matlVars
    /\ UNCHANGED <<meshVars, graphVars, rotVars, importVars>>

NextMatl ==
    \/ MatlBegin
    \/ MatlSkip
    \/ MatlKey
    \/ MatlEnd
    \/ MatlFileEnd

SpecMatl == InitMatl /\ [][NextMatl]_vars

----------------------------------------------------------------------------
(* SpecImport: ImportVox.execute and import_vox over the bytes of files.   *)
(* A byte is an integer of 0..255 and a bytes object a sequence of them.   *)

\* how many items the slice [:n] of a sequence takes: Python counts a negative
\* n from the end
SliceEnd(bytes, n) ==
    IF n >= 0 THEN (IF n <= Len(bytes) THEN n ELSE Len(bytes))
    ELSE (IF Len(bytes) + n >= 0 THEN Len(bytes) + n ELSE 0)

\* read_content: out = content[:size], del content[:size]; rest is content after
read_content(bytes, n) ==
    [out  |-> SubSeq(bytes, 1, SliceEnd(bytes, n)),
     rest |-> SubSeq(bytes, SliceEnd(bytes, n) + 1, Len(bytes))]

\* struct.unpack('<i', b) of four bytes: little-endian, two's complement
Int32(b) ==
    b[1] + 256 * b[2] + 65536 * b[3]
    + 16777216 * (IF b[4] >= 128 THEN b[4] - 256 ELSE b[4])

\* A decoder at work: the exception it raised ("" for none), the content it
\* has not read, the integers it has unpacked and the dict read_dict returned.
Reader(bytes) == [err |-> "", rest |-> bytes, vals |-> <<>>, dict |-> <<>>]

\* struct.unpack raises struct.error when the bytes it gets are not as many
\* as its format asks for
StructError(r, rest) == [r EXCEPT !.err = "struct.error", !.rest = rest]

\* struct.unpack('<ki', read_content(content, 4 * k))
ReadInts(r, k) ==
    IF r.err # "" THEN r
    ELSE LET c == read_content(r.rest, 4 * k)
         IN  IF Len(c.out) # 4 * k THEN StructError(r, c.rest)
             ELSE [r EXCEPT !.rest = c.rest,
                            !.vals = @ \o [i \in 1..k |->
                                        Int32(SubSeq(c.out, 4 * i - 3, 4 * i))]]

\* the body of "for _ in range(dict_size)" of read_dict, n times
RECURSIVE ReadEntries(_, _)
ReadEntries(r, n) ==
    IF n <= 0 \/ r.err # "" THEN r
    ELSE LET kb == read_content(r.rest, 4)
         IN  IF Len(kb.out) # 4 THEN StructError(r, kb.rest)
             ELSE LET k == read_content(kb.rest, Int32(kb.out))
                  IN  IF Int32(kb.out) < 0 \/ Len(k.out) # Int32(kb.out)
                      THEN StructError(r, k.rest)
                      ELSE LET vb == read_content(k.rest, 4)
                           IN  IF Len(vb.out) # 4 THEN StructError(r, vb.rest)
                               ELSE LET v == read_content(vb.rest, Int32(vb.out))
                                    IN  IF Int32(vb.out) < 0
                                           \/ Len(v.out) # Int32(vb.out)
                                        THEN StructError(r, v.rest)
                                        ELSE ReadEntries(
                                               [r EXCEPT !.rest = v.rest,
                                                         !.dict = DictSet(@, k.out, v.out)],
                                               n - 1)

\* read_dict on the bytes of the content
ReadDict(r) ==
    IF r.err # "" THEN r
    ELSE LET h == read_content(r.rest, 4)
         IN  IF Len(h.out) # 4 THEN StructError(r, h.rest)
             ELSE ReadEntries([r EXCEPT !.rest = h.rest, !.dict = <<>>],
                              Int32(h.out))

\* read_chunk on the bytes the file holds from file.tell() on: the name, the
\* content, and struct.error when the 12 bytes of the chunk header are not
\* all there
read_chunk(buffer) ==
    LET head == read_content(buffer, 12)
    IN  IF Len(head.out) # 12
        THEN [err |-> "struct.error", name |-> <<>>, content |-> <<>>]
        ELSE [err |-> "",
              name |-> SubSeq(head.out, 1, 4),
              content |-> read_content(head.rest,
                                       Int32(SubSeq(head.out, 5, 8))).out]

\* int(text) for a text of decimal digits with an optional minus sign
RECURSIVE Digits(_)
Digits(text) ==
    IF Len(text) = 0 THEN 0
    ELSE 10 * Digits(SubSeq(text, 1, Len(text) - 1)) + (text[Len(text)] - 48)

IntText(text) == IF text[1] = 45 THEN 0 - Digits(Tail(text)) ELSE Digits(text)

\* str.split(): the runs of text between spaces
RECURSIVE SplitFrom(_, _, _)
SplitFrom(text, word, words) ==
    IF Len(text) = 0
    THEN (IF word = <<>> THEN words ELSE Append(words, word))
    ELSE IF text[1] = 32
    THEN SplitFrom(Tail(text), <<>>,
                   IF word = <<>> THEN words ELSE Append(words, word))
    ELSE SplitFrom(Tail(text), Append(word, text[1]), words)

\* the names and keys import_vox compares with, as bytes
TagVOX  == <<86, 79, 88, 32>>
TagMAIN == <<77, 65, 73, 78>>
TagSIZE == <<83, 73, 90, 69>>
TagXYZI == <<88, 89, 90, 73>>
TagNTRN == <<110, 84, 82, 78>>
TagNGRP == <<110, 71, 82, 80>>
TagNSHP == <<110, 83, 72, 80>>
TagRGBA == <<82, 71, 66, 65>>
TagMATL == <<77, 65, 84, 76>>
KeyR    == <<95, 114>>
KeyT    == <<95, 116>>

\* bytes.decode of the keys and values of the MATL dicts of the model
Text(bytes) ==
    CASE bytes = <<95, 114, 111, 117, 103, 104>> -> "_rough"
      [] bytes = <<95, 116, 121, 112, 101>> -> "_type"
      [] bytes = <<95, 109, 101, 116, 97, 108>> -> "_metal"
      [] bytes = <<48, 46, 51>> -> "0.3"
      [] bytes = <<48, 46, 55>> -> "0.7"
      [] OTHER -> "?"

----------------------------------------------------------------------------
(* The files of the model, written the way MagicaVoxel writes them         *)

\* the files one call of execute is given
MaxFiles == 2

\* the chunks the files of one call of execute hold between them
MaxChunks == 4

\* struct.pack('<i', n)
I32(n) ==
    LET m == IF n >= 0 THEN n ELSE (n + 2147483647) + 1
    IN  <<m % 256, (m \div 256) % 256, (m \div 65536) % 256,
          ((m \div 16777216) % 256) + (IF n >= 0 THEN 0 ELSE 128)>>

RECURSIVE Concat(_, _)
Concat(seqs, n) == IF n = 0 THEN <<>> ELSE Concat(seqs, n - 1) \o seqs[n]

\* a dict on the wire: the entry count, then length and bytes of each key
\* and value
EncDict(d) ==
    I32(Len(d)) \o Concat([i \in 1..Len(d) |->
                             I32(Len(d[i][1])) \o d[i][1]
                             \o I32(Len(d[i][2])) \o d[i][2]], Len(d))

\* a chunk on the wire: name, content length, children length, content
Chunk(tag, payload) == tag \o I32(Len(payload)) \o I32(0) \o payload

XyziPayload(list) == I32(Len(list)) \o Concat(list, Len(list))

\* nTRN: node id, attributes, child id, reserved id, layer id, frame count,
\* frame dict
TrnPayload(id, child, frameDict) ==
    I32(id) \o EncDict(<<>>) \o I32(child) \o I32(-1) \o I32(0) \o I32(1)
    \o EncDict(frameDict)

GrpPayload(id, children) ==
    I32(id) \o EncDict(<<>>) \o I32(Len(children))
    \o Concat([i \in 1..Len(children) |-> I32(children[i])], Len(children))

ShpPayload(id, model_ids) ==
    I32(id) \o EncDict(<<>>) \o I32(Len(model_ids))
    \o Concat([i \in 1..Len(model_ids) |-> I32(model_ids[i]) \o EncDict(<<>>)],
              Len(model_ids))

\* 256 colors of four bytes
RgbaPayload(seed) == [j \in 1..1024 |-> (seed * j) % 256]

\* a payload as its chunk kind defines it, one byte short, and one byte long
Variants(payload) ==
    {payload, SubSeq(payload, 1, Len(payload) - 1), payload \o <<0>>}

\* what a file may hold from file.tell() on: a chunk, or the first bytes of a
\* chunk header at the end of a cut file
RawChunks ==
    LET \* a grid of 2 x 2 x 2 and one voxel of color 1 at its origin
        SizePayload == I32(2) \o I32(2) \o I32(2)
        OneVoxel == << <<0, 0, 0, 1>> >>
        \* _t "1 2 -3" and _r "40"
        MovedFrame == << <<KeyT, <<49, 32, 50, 32, 45, 51>> >>,
                         <<KeyR, <<52, 48>> >> >>
        \* material id, then the dict _rough "0.3"
        MatlPayload(id) ==
            I32(id) \o EncDict(<< << <<95, 114, 111, 117, 103, 104>>,
                                     <<48, 46, 51>> >> >>)
    IN  {Chunk(TagSIZE, p) : p \in Variants(SizePayload)}
        \cup {Chunk(TagXYZI, p) : p \in Variants(XyziPayload(OneVoxel))}
        \cup {Chunk(TagNTRN, p) : p \in Variants(TrnPayload(0, 1, <<>>))
                                         \cup {TrnPayload(0, 1, MovedFrame)}}
        \cup {Chunk(TagNGRP, p) : p \in Variants(GrpPayload(1, <<2>>))}
        \cup {Chunk(TagNSHP, p) : p \in Variants(ShpPayload(1, <<0>>))}
        \cup {Chunk(TagRGBA, p) : p \in {RgbaPayload(3),
                                         SubSeq(RgbaPayload(3), 1, 1020),
                                         SubSeq(RgbaPayload(3), 1, 1018)}}
        \cup {Chunk(TagMATL, p) : p \in Variants(MatlPayload(1))
                                         \cup {MatlPayload(256)}}
        \cup {Chunk(<<80, 65, 67, 75>>, I32(1))}
        \cup {SubSeq(Chunk(TagSIZE, SizePayload), 1, 7)}

\* the bytes ahead of the first chunk: "VOX ", the version, "MAIN" and the
\* two lengths of the MAIN chunk
FileHeader(magic, version, main, n) ==
    magic \o I32(version) \o main \o I32(n) \o I32(0)

FileHeaders ==
    {FileHeader(TagVOX, 150, TagMAIN, 0),
     FileHeader(<<86, 79, 88, 69>>, 150, TagMAIN, 0),
     FileHeader(TagVOX, 200, TagMAIN, 0),
     FileHeader(TagVOX, 150, TagSIZE, 0),
     FileHeader(TagVOX, 150, TagMAIN, 12),
     SubSeq(FileHeader(TagVOX, 150, TagMAIN, 0), 1, 6),
     SubSeq(FileHeader(TagVOX, 150, TagMAIN, 0), 1, 14)}

\* the values of the operator properties import_vox and generate branch on
OptionSets ==
    {[material_type |-> m, organize |-> o] :
        m \in {"None", "VertCol", "Tex", "Recolor"}, o \in BOOLEAN}

----------------------------------------------------------------------------
(* The decoders of import_vox                                              *)

\* faulty variant of HeaderError: the version is not compared
HeaderError_VersionUnchecked(h) ==
    LET a  == read_content(h, 8)
        m  == read_content(a.rest, 4)
        nm == read_content(m.rest, 8)
    IN  IF Len(a.out) # 8 THEN "struct.error"
        ELSE IF SubSeq(a.out, 1, 4) # TagVOX THEN "AssertionError"
        ELSE IF Len(m.out) # 4 THEN "struct.error"
        ELSE IF m.out # TagMAIN THEN "AssertionError"
        ELSE IF Len(nm.out) # 8 THEN "struct.error"
        ELSE IF Int32(SubSeq(nm.out, 1, 4)) # 0 THEN "AssertionError"
        ELSE ""

\* The three asserts ahead of the parse loop and the struct.unpack calls
\* they hold: the exception raised for the first bytes h of a file, "" for
\* none.
HeaderError(h) ==
    LET a  == read_content(h, 8)
        m  == read_content(a.rest, 4)
        nm == read_content(m.rest, 8)
    IN  IF Len(a.out) # 8 THEN "struct.error"
        ELSE IF SubSeq(a.out, 1, 4) # TagVOX
                \/ Int32(SubSeq(a.out, 5, 8)) # 150 THEN "AssertionError"
        ELSE IF Len(m.out) # 4 THEN "struct.error"
        ELSE IF m.out # TagMAIN THEN "AssertionError"
        ELSE IF Len(nm.out) # 8 THEN "struct.error"
        ELSE IF Int32(SubSeq(nm.out, 1, 4)) # 0 THEN "AssertionError"
        ELSE ""

\* n times struct.unpack('<4B', read_content(content, 4)): the tuples read
\* before the content ran out, and struct.error if it did
ReadTuples(r, n) ==
    IF r.err # "" \/ n <= 0 THEN r
    ELSE LET k == IF n <= Len(r.rest) \div 4 THEN n ELSE Len(r.rest) \div 4
             t == [i \in 1..k |-> SubSeq(r.rest, 4 * i - 3, 4 * i)]
         IN  IF k < n
             THEN [r EXCEPT !.err = "struct.error", !.rest = <<>>,
                            !.vals = @ \o t]
             ELSE [r EXCEPT !.rest = SubSeq(r.rest, 4 * n + 1, Len(r.rest)),
                            !.vals = @ \o t]

\* n times struct.unpack('<i', read_content(content, 4))[0]
RECURSIVE ReadIntList(_, _)
ReadIntList(r, n) ==
    IF r.err # "" \/ n <= 0 THEN r ELSE ReadIntList(ReadInts(r, 1), n - 1)

\* n times a model id and its attribute dict
RECURSIVE ReadModelRefs(_, _)
ReadModelRefs(r, n) ==
    IF r.err # "" \/ n <= 0 THEN r
    ELSE ReadModelRefs(ReadDict(ReadInts(r, 1)), n - 1)

\* "for key in frames" of the nTRN branch on transforms[id] = t, over the
\* first n keys of the frame dict
RECURSIVE FrameFold(_, _, _)
FrameFold(t, frameDict, n) ==
    IF n = 0 THEN [err |-> "", t |-> t]
    ELSE LET prev  == FrameFold(t, frameDict, n - 1)
             key   == frameDict[n][1]
             value == frameDict[n][2]
         IN  IF prev.err # "" THEN prev
             ELSE IF key = KeyR
             THEN (IF ParseRaises(IntText(value))
                   THEN [prev EXCEPT !.err = "ValueError"]
                   ELSE [prev EXCEPT !.t[3] =
                           rotation_to_euler(ParseRotationMatrix(IntText(value)))])
             ELSE IF key = KeyT
             THEN (IF Len(SplitFrom(value, <<>>, <<>>)) < 3
                   THEN [prev EXCEPT !.err = "IndexError"]
                   ELSE [prev EXCEPT !.t[2] =
                           <<IntText(SplitFrom(value, <<>>, <<>>)[1]),
                             IntText(SplitFrom(value, <<>>, <<>>)[2]),
                             IntText(SplitFrom(value, <<>>, <<>>)[3])>>])
             ELSE prev

\* colors = [float(col) / 255 for col in rgba], a color kept as the fraction
\* <<numerator, denominator>>
Colors(rgba) == [k \in 1..4 |-> <<rgba[k], 255>>]

\* "for key in mat_dict" on the record of material id, over the first n keys
RECURSIVE MatlFold(_, _, _)
MatlFold(id, d, n) ==
    IF n = 0
    THEN [err |-> "", kind |-> InitialKind,
          mat |-> IF MaterialRowRaises(id) THEN DefaultMaterial
                  ELSE materials[MaterialRow(id)]]
    ELSE LET prev == MatlFold(id, d, n - 1)
             kind == KindAfter(prev.kind, Text(d[n][1]), Text(d[n][2]))
         IN  IF prev.err # "" THEN prev
             ELSE IF MaterialRowRaises(id) THEN [prev EXCEPT !.err = "IndexError"]
             ELSE [prev EXCEPT !.kind = kind,
                               !.mat = MaterialAfter(@, kind, Text(d[n][1]),
                                                     Text(d[n][2]))]

RecognizedTags ==
    {TagSIZE, TagXYZI, TagNTRN, TagNGRP, TagNSHP, TagRGBA, TagMATL}

----------------------------------------------------------------------------
(* SpecImport: the actions                                                 *)

\* variables of the other machines, which import_vox leaves alone
restVars == <<meshVars, rotVars, wire, mat_id, mat_dict, mat_type, matIdx,
              materialsBefore, fileLeft, described>>

solveVars == <<pc, stack, transformed_models, returned>>

\* what a branch of the parse loop leaves alone
loopVars == <<options, numPaths, pathIdx, started, header, chunksLeft, name,
              sink, sinkAtCall, genIdx, solveVars, restVars>>

InitImport ==
    /\ pc = "idle"
    /\ ipc = "begin"
    /\ options = NoOptions
    /\ numPaths = 0
    /\ pathIdx = 0
    /\ started = {}
    /\ header = <<>>
    /\ chunksLeft = 0
    /\ name = <<>>
    /\ chunkContent = <<>>
    /\ size = <<>>
    /\ grids = <<>>
    /\ palette = <<>>
    /\ rgbaSeen = <<>>
    /\ sink = <<>>
    /\ sinkAtCall = 0
    /\ error = ""
    /\ genIdx = 0
    /\ MeshIdle /\ GraphIdle /\ RotIdle /\ MatlIdle

\* execute: paths is built from self.files, or holds self.filepath alone
ExecuteBegin ==
    /\ ipc = "begin"
    /\ \E n \in 0..MaxFiles : numPaths' = IF n = 0 THEN 1 ELSE n
    /\ pathIdx' = 1
    /\ chunksLeft' = MaxChunks
    /\ ipc' = "execute"
    /\ UNCHANGED <<options, started, header, name, chunkContent,
                   size, grids, palette, rgbaSeen, sink, sinkAtCall, error,
                   genIdx>>
    /\ UNCHANGED <<pc, meshVars, graphVars, rotVars, matlVars>>

\* "for path in paths: import_vox(path, self)": the call, and import_vox up
\* to the first read of the file
ImportCall ==
    /\ ipc = "execute" /\ pathIdx <= numPaths
    /\ \E h \in FileHeaders : header' = h
    /\ started' = started \cup {pathIdx}
    /\ sinkAtCall' = Len(sink)
    /\ grids' = <<>>
    /\ models' = {}
    /\ transforms' = <<>>
    /\ groups' = <<>>
    /\ shapes' = <<>>
    /\ palette' = <<>>
    /\ rgbaSeen' = <<>>
    /\ materials' = [i \in 1..NumMaterials |-> DefaultMaterial]
    /\ size' = <<>>
    /\ name' = <<>>
    /\ chunkContent' = <<>>
    /\ stack' = <<>>
    /\ transformed_models' = <<>>
    /\ returned' = FALSE
    /\ error' = ""
    /\ genIdx' = 0
    /\ pc' = "idle"
    /\ ipc' = "header"
    /\ UNCHANGED <<options, numPaths, pathIdx, chunksLeft, sink, restVars>>

\* execute: the loop is over, return {"FINISHED"}
ExecuteReturn ==
    /\ ipc = "execute" /\ pathIdx > numPaths
    /\ ipc' = "finished"
    /\ UNCHANGED <<options, numPaths, pathIdx, started, header, chunksLeft,
                   name, chunkContent, size, grids, palette, rgbaSeen, sink,
                   sinkAtCall, error, genIdx>>
    /\ UNCHANGED <<pc, meshVars, graphVars, rotVars, matlVars>>

\* the magic, version and MAIN checks; an exception leaves import_vox and,
\* execute catching nothing, execute
ImportHeader ==
    /\ ipc = "header"
    /\ error' = HeaderError(header)
    /\ ipc' = IF HeaderError(header) = "" THEN "chunks" ELSE "raised"
    /\ UNCHANGED <<chunkContent, size, grids, models, transforms, groups,
                   shapes, palette, rgbaSeen, materials, loopVars>>

\* "while file.tell() < file_size: name, content = read_chunk(file)"
ReadChunk ==
    /\ ipc = "chunks" /\ chunksLeft > 0
    /\ \E raw \in RawChunks :
          LET c == read_chunk(raw)
          IN  /\ name' = c.name
              /\ chunkContent' = c.content
              /\ error' = c.err
              /\ ipc' = IF c.err = "" THEN "dispatch" ELSE "raised"
    /\ chunksLeft' = chunksLeft - 1
    /\ UNCHANGED <<size, grids, models, transforms, groups, shapes, palette,
                   rgbaSeen, materials, options, numPaths, pathIdx, started,
                   header, sink, sinkAtCall, genIdx, solveVars, restVars>>

\* the end of a branch of the parse loop: content is what the branch has
\* not read, and an exception leaves import_vox
BranchEnds(r) ==
    /\ chunkContent' = r.rest
    /\ error' = r.err
    /\ ipc' = IF r.err = "" THEN "chunks" ELSE "raised"

\* name == b'SIZE'
ChunkSIZE ==
    /\ ipc = "dispatch" /\ name = TagSIZE
    /\ LET r == ReadInts(Reader(chunkContent), 3)
       IN  /\ BranchEnds(r)
           /\ size' = IF r.err = "" THEN r.vals ELSE size
    /\ UNCHANGED <<grids, models, transforms, groups, shapes, palette,
                   rgbaSeen, materials, loopVars>>

\* name == b'XYZI': the voxel list, then models[mod_id] = VoxelObject(voxels,
\* size), which raises UnboundLocalError when no SIZE chunk has bound size
ChunkXYZI ==
    /\ ipc = "dispatch" /\ name = TagXYZI
    /\ LET n == ReadInts(Reader(chunkContent), 1)
           r == IF n.err # "" THEN n ELSE ReadTuples([n EXCEPT !.vals = <<>>], n.vals[1])
           e == IF r.err = "" /\ size = <<>>
                THEN [r EXCEPT !.err = "UnboundLocalError"] ELSE r
       IN  /\ BranchEnds(e)
           /\ IF e.err = ""
              THEN /\ grids' = Append(grids,
                          [size |-> size,
                           voxels |-> InitVoxels(e.vals, Len(e.vals)),
                           used_colors |-> InitUsedColors(e.vals, Len(e.vals))])
                   /\ models' = 0..Len(grids)
              ELSE UNCHANGED <<grids, models>>
    /\ UNCHANGED <<size, transforms, groups, shapes, palette, rgbaSeen,
                   materials, loopVars>>

\* name == b'nTRN'
ChunkNTRN ==
    /\ ipc = "dispatch" /\ name = TagNTRN
    /\ LET h == ReadInts(ReadDict(ReadInts(Reader(chunkContent), 1)), 4)
           r == ReadDict(h)
           f == IF r.err # "" THEN [err |-> r.err, t |-> <<>>]
                ELSE FrameFold(<<r.vals[2], <<0, 0, 0>>, <<0, 0, 0>>>>,
                               r.dict, Len(r.dict))
       IN  /\ BranchEnds([r EXCEPT !.err = f.err])
           /\ transforms' = IF f.err = "" THEN Store(transforms, r.vals[1], f.t)
                            ELSE transforms
    /\ UNCHANGED <<size, grids, models, groups, shapes, palette, rgbaSeen,
                   materials, loopVars>>

\* name == b'nGRP'
ChunkNGRP ==
    /\ ipc = "dispatch" /\ name = TagNGRP
    /\ LET h == ReadInts(ReadDict(ReadInts(Reader(chunkContent), 1)), 1)
           r == IF h.err # "" THEN h ELSE ReadIntList([h EXCEPT !.vals = <<>>], h.vals[2])
       IN  /\ BranchEnds(r)
           /\ groups' = IF r.err = "" THEN Store(groups, h.vals[1], r.vals)
                        ELSE groups
    /\ UNCHANGED <<size, grids, models, transforms, shapes, palette, rgbaSeen,
                   materials, loopVars>>

\* name == b'nSHP'
ChunkNSHP ==
    /\ ipc = "dispatch" /\ name = TagNSHP
    /\ LET h == ReadInts(ReadDict(ReadInts(Reader(chunkContent), 1)), 1)
           r == IF h.err # "" THEN h ELSE ReadModelRefs([h EXCEPT !.vals = <<>>], h.vals[2])
       IN  /\ BranchEnds(r)
           /\ shapes' = IF r.err = "" THEN Store(shapes, h.vals[1], r.vals)
                        ELSE shapes
    /\ UNCHANGED <<size, grids, models, transforms, groups, palette, rgbaSeen,
                   materials, loopVars>>

\* name == b'RGBA': 255 colors appended to palette, then del content[:4]
ChunkRGBA ==
    /\ ipc = "dispatch" /\ name = TagRGBA
    /\ LET r == ReadTuples(Reader(chunkContent), 255)
       IN  /\ BranchEnds([r EXCEPT !.rest = read_content(r.rest, 4).rest])
           /\ palette' = palette \o [i \in 1..Len(r.vals) |-> Colors(r.vals[i])]
    /\ rgbaSeen' = Append(rgbaSeen, chunkContent)
    /\ UNCHANGED <<size, grids, models, transforms, groups, shapes, materials,
                   loopVars>>

\* name == b'MATL'
ChunkMATL ==
    /\ ipc = "dispatch" /\ name = TagMATL
    /\ LET i == ReadInts(Reader(chunkContent), 1)
           r == IF i.err # "" \/ MaterialIdSkipped(i.vals[1]) THEN i
                ELSE ReadDict(i)
           f == IF i.err # "" \/ MaterialIdSkipped(i.vals[1]) \/ r.err # ""
                THEN [err |-> r.err, kind |-> InitialKind, mat |-> DefaultMaterial]
                ELSE MatlFold(i.vals[1], r.dict, Len(r.dict))
       IN  /\ BranchEnds([r EXCEPT !.err = f.err])
           /\ materials' =
                IF i.err # "" \/ MaterialIdSkipped(i.vals[1]) \/ f.err # ""
                   \/ MaterialRowRaises(i.vals[1])
                THEN materials
                ELSE [materials EXCEPT ![MaterialRow(i.vals[1])] = f.mat]
    /\ UNCHANGED <<size, grids, models, transforms, groups, shapes, palette,
                   rgbaSeen, loopVars>>

\* a name no branch of the parse loop compares with: the chunk is passed over
ChunkOther ==
    /\ ipc = "dispatch" /\ name \notin RecognizedTags
    /\ ipc' = "chunks"
    /\ UNCHANGED <<chunkContent, error, size, grids, models, transforms,
                   groups, shapes, palette, rgbaSeen, materials, loopVars>>

\* file.tell() has reached file_size: the parse loop and the with block end
ParseEnd ==
    /\ ipc = "chunks"
    /\ ipc' = "options"
    /\ UNCHANGED <<chunkContent, error, size, grids, models, transforms,
                   groups, shapes, palette, rgbaSeen, materials, loopVars>>

\* what the part of import_vox after the parse loop leaves alone
parsedVars == <<chunksLeft, name, chunkContent, size, grids, models,
                transforms, groups, shapes, palette, rgbaSeen, materials,
                header, sinkAtCall, numPaths, started, restVars>>

\* "Import Options": the materials and images made ahead of the scene graph.
\* SepMat and Recolor make or rebuild one material for each palette entry and
\* read materials[id] for it; VertCol makes one material unless it is there
\* and kept; Tex makes two images and reads palette[i] for i < 255.
ImportMaterials ==
    /\ ipc = "options"
    /\ \E o \in (IF options = NoOptions THEN OptionSets ELSE {options}) :
          /\ options' = o
          /\ CASE o.material_type \in {"SepMat", "Recolor"} ->
                    IF Len(palette) > NumMaterials
                    THEN /\ sink' = sink \o [i \in 1..(NumMaterials + 1) |-> "material"]
                         /\ error' = "IndexError"
                         /\ ipc' = "raised"
                    ELSE /\ sink' = sink \o [i \in 1..Len(palette) |-> "material"]
                         /\ error' = error
                         /\ ipc' = "solve"
               [] o.material_type = "VertCol" ->
                    /\ \E made \in BOOLEAN :
                          sink' = IF made THEN Append(sink, "material") ELSE sink
                    /\ error' = error
                    /\ ipc' = "solve"
               [] o.material_type = "Tex" ->
                    \E made \in BOOLEAN :
                       IF ~made
                       THEN /\ sink' = sink
                            /\ error' = error
                            /\ ipc' = "solve"
                       ELSE IF Len(palette) < 255
                       THEN /\ sink' = sink \o [i \in 1..2 |-> "image"]
                            /\ error' = "IndexError"
                            /\ ipc' = "raised"
                       ELSE /\ sink' = Append(sink \o [i \in 1..2 |-> "image"], "material")
                            /\ error' = error
                            /\ ipc' = "solve"
               [] OTHER ->
                    /\ sink' = sink
                    /\ error' = error
                    /\ ipc' = "solve"
    /\ UNCHANGED <<pathIdx, genIdx, solveVars, parsedVars>>

\* transformed_models = solve_scene_graph(...): the call, up to the call of
\* traverse_scene_graph
ImportSolve ==
    /\ ipc = "solve" /\ pc = "idle"
    /\ IF RootMissing
       THEN /\ pc' = "raised"
            /\ stack' = stack
       ELSE /\ pc' = "traverse"
            /\ stack' = <<Frame(<<0, 0, 0>>, <<0, 0, 0>>, 0, <<>>)>>
    /\ UNCHANGED <<ipc, options, pathIdx, sink, error, genIdx,
                   transformed_models, returned, parsedVars>>

\* an exception of solve_scene_graph leaves import_vox
ImportSolveRaised ==
    /\ ipc = "solve" /\ pc = "raised"
    /\ error' = IF RootMissing THEN "ValueError"
                ELSE IF NodeKind(Top.current_id) = "shape" THEN "KeyError"
                ELSE "RecursionError"
    /\ ipc' = "raised"
    /\ UNCHANGED <<options, pathIdx, sink, genIdx, solveVars, parsedVars>>

\* "Create Collections", once solve_scene_graph has returned
ImportCollections ==
    /\ ipc = "solve" /\ pc = "done"
    /\ sink' = IF options.organize THEN Append(sink, "collection") ELSE sink
    /\ genIdx' = 1
    /\ ipc' = "generate"
    /\ UNCHANGED <<options, pathIdx, error, solveVars, parsedVars>>

\* "for model in transformed_models: model.generate(...)": generate returns
\* at once for an object without colors and makes a mesh and an object for
\* each color of the others
ImportGenerate ==
    /\ ipc = "generate" /\ genIdx <= Len(transformed_models)
    /\ sink' = sink \o
          [i \in 1..Len(grids[transformed_models[genIdx].model + 1].used_colors)
             |-> "mesh"]
    /\ genIdx' = genIdx + 1
    /\ UNCHANGED <<ipc, options, pathIdx, error, solveVars, parsedVars>>

\* import_vox returns and execute goes on to the next path
ImportReturn ==
    /\ ipc = "generate" /\ genIdx > Len(transformed_models)
    /\ pathIdx' = pathIdx + 1
    /\ ipc' = "execute"
    /\ UNCHANGED <<options, sink, error, genIdx, solveVars, parsedVars>>

NextImport ==
    \/ ExecuteBegin
    \/ ImportCall
    \/ ExecuteReturn
    \/ ImportHeader
    \/ ReadChunk
    \/ ChunkSIZE
    \/ ChunkXYZI
    \/ ChunkNTRN
    \/ ChunkNGRP
    \/ ChunkNSHP
    \/ ChunkRGBA
    \/ ChunkMATL
    \/ ChunkOther
    \/ ParseEnd
    \/ ImportMaterials
    \/ ImportSolve
    \/ TraverseTransform
    \/ TraverseGroup
    \/ TraverseShape
    \/ TraverseReturn
    \/ SolveReturn
    \/ ImportSolveRaised
    \/ ImportCollections
    \/ ImportGenerate
    \/ ImportReturn

SpecImport == InitImport /\ [][NextImport]_vars

----------------------------------------------------------------------------
(* Claims about the mesh extractor                                         *)

\* position p holds a voxel: the grid stores a non-zero color at p
HoldsVoxel(p) ==
    \E i \in 1..Len(voxels) : voxels[i][2][1] = p /\ voxels[i][2][2] # 0

\* the faces made for voxel p in direction d, as <<mesh, face>> positions
QuadsFor(p, d) ==
    {<<i, j>> \in (1..Len(meshes)) \X (1..(6 * Len(voxels))) :
        j <= Len(meshes[i].tags) /\ meshes[i].tags[j] = <<p, d>>}

TotalQuads ==
    Cardinality({<<i, j>> \in (1..Len(meshes)) \X (1..(6 * Len(voxels))) :
                    j <= Len(meshes[i].faces)})

FaceAdjacent(p, q) ==
    \E n \in 1..Len(Directions) : q = VAdd(p, NeighbourOffset(Directions[n]))

\* C1: once generate has finished, every stored voxel v of color c has, for
\* each of the six directions d, exactly one quad, in the batch of color c,
\* when position v+d holds no voxel, and none when it holds one; a position
\* the grid never stored (a coordinate of -1 or 256 included) holds none.
\* One isolated voxel gives 6 quads, two face-adjacent voxels give 10.
C1_FaceCulling ==
    pc = "generated" =>
        /\ \A e \in 1..Len(voxels) : \A n \in 1..Len(Directions) :
              LET v == voxels[e][2][1]
                  c == voxels[e][2][2]
                  d == Directions[n]
                  q == QuadsFor(v, d)
              IN  c # 0 =>
                    /\ Cardinality(q) =
                         IF HoldsVoxel(VAdd(v, NeighbourOffset(d))) THEN 0 ELSE 1
                    /\ \A ij \in q : meshes[ij[1]].col = c
        /\ (Len(voxels) = 1 /\ voxels[1][2][2] # 0) => TotalQuads = 6
        /\ (/\ Len(voxels) = 2
            /\ voxels[1][2][2] # 0
            /\ voxels[2][2][2] # 0
            /\ FaceAdjacent(voxels[1][2][1], voxels[2][2][1])) => TotalQuads = 10

VSub(a, b) == <<a[1] - b[1], a[2] - b[2], a[3] - b[3]>>

Cross(a, b) == <<a[2] * b[3] - a[3] * b[2],
                 a[3] * b[1] - a[1] * b[3],
                 a[1] * b[2] - a[2] * b[1]>>

\* right-hand-rule normal of face j of mesh m: the cross product of its
\* first two consecutive edges
FaceNormal(m, j) ==
    LET v0 == m.verts[m.faces[j][1] + 1]
        v1 == m.verts[m.faces[j][2] + 1]
        v2 == m.verts[m.faces[j][3] + 1]
    IN  Cross(VSub(v1, v0), VSub(v2, v1))

\* C2: every quad handed to from_pydata is wound outward: the right-hand-rule
\* normal of its vertex order is the direction d the quad was made for.
C2_OutwardWinding ==
    \A i \in 1..Len(meshes) : \A j \in 1..Len(meshes[i].faces) :
        meshes[i].col # 0 =>
        FaceNormal(meshes[i], j) = NeighbourOffset(meshes[i].tags[j][2])

\* coordinates of the positions getVox is asked for
ProbeCoords == {0, 1, 2, 3, 255}

ProbePositions == ProbeCoords \X ProbeCoords \X ProbeCoords

\* color of the last tuple of list at position p, 0 when there is none
LastColor(list, p) ==
    LET at == {i \in 1..Len(list) : <<list[i][1], list[i][2], list[i][3]>> = p}
    IN  IF at = {} THEN 0
        ELSE list[CHOOSE i \in at : \A j \in at : j <= i][4]

\* C12: for a VoxelObject built from a list of tuples (x,y,z,c) with
\* coordinates in 0..255, getVox(p) is, for every position p of that range,
\* the color of the last tuple at p, and 0 when the list has no tuple at p;
\* the packed key is distinct for distinct positions of the range.  For the
\* 2x2x2 cube of color 1, getVox is 1 on its 8 positions and 0 at (3,3,3).
C12_GridRoundTrip ==
    pc # "new" =>
        /\ \A p \in ProbePositions : getVox(voxels, p) = LastColor(voxelList, p)
        /\ pc = "built" =>
              \A p, q \in ProbePositions : p # q => Index(p) # Index(q)
        /\ voxelList = Cube =>
              /\ \A p \in {0, 1} \X {0, 1} \X {0, 1} : getVox(voxels, p) = 1
              /\ getVox(voxels, <<3, 3, 3>>) = 0

\* C12 witness: the grid of the cube was built and answers 1 inside, 0 outside
C12_Witness ==
    /\ pc = "built"
    /\ voxelList = Cube
    /\ Len(voxels) = 8
    /\ getVox(voxels, <<1, 1, 1>>) = 1
    /\ getVox(voxels, <<3, 3, 3>>) = 0

\* position in voxelList of the first tuple of color c
FirstSeen(c) ==
    CHOOSE i \in 1..Len(voxelList) :
        voxelList[i][4] = c /\ \A j \in 1..(i - 1) : voxelList[j][4] # c

\* C16: once a VoxelObject is built, used_colors holds exactly the color ids
\* c # 0 of which the grid stores a voxel, each once, in order of first
\* occurrence in the list; 0 is no element of used_colors and no entry of
\* voxels has color id 0.
C16_UsedColors ==
    pc # "new" =>
        /\ \A c \in 0..255 :
              InList(c, used_colors) <=>
                 (c # 0 /\ \E e \in 1..Len(voxels) : voxels[e][2][2] = c)
        /\ \A i, j \in 1..Len(used_colors) :
              i < j => /\ used_colors[i] # used_colors[j]
                       /\ FirstSeen(used_colors[i]) < FirstSeen(used_colors[j])
        /\ ~InList(0, used_colors)
        /\ \A e \in 1..Len(voxels) : voxels[e][2][2] # 0

----------------------------------------------------------------------------
(* Claims about solve_scene_graph                                          *)

\* the child that position i of node n's branch steps to
StepChild(n, i) ==
    IF NodeKind(n) = "transform" THEN transforms[n][1] ELSE groups[n][i]

\* the node reached from node 0 by the first k child positions of ipath
RECURSIVE NodeAt(_, _)
NodeAt(ipath, k) ==
    IF k = 0 THEN 0 ELSE StepChild(NodeAt(ipath, k - 1), ipath[k])

\* the first k child positions of ipath are steps of the graph
RECURSIVE ValidPath(_, _)
ValidPath(ipath, k) ==
    IF k = 0 THEN TRUE
    ELSE /\ ValidPath(ipath, k - 1)
         /\ LET n == NodeAt(ipath, k - 1)
            IN  \/ NodeKind(n) = "transform" /\ ipath[k] = 1
                \/ NodeKind(n) = "group" /\ ipath[k] \in 1..Len(groups[n])

\* sum of field f (2: translation, 3: rotation) of the transform nodes among
\* the first k+1 nodes of the path
RECURSIVE PathSum(_, _, _)
PathSum(ipath, k, f) ==
    LET n    == NodeAt(ipath, k)
        here == IF NodeKind(n) = "transform" THEN transforms[n][f]
                ELSE <<0, 0, 0>>
    IN  IF k = 0 THEN here ELSE VAdd(PathSum(ipath, k - 1, f), here)

\* C3: every instance solve_scene_graph returns has as position the sum of
\* the translations, and as rotation the sum of the Euler triples, of the
\* transform nodes on its path from node 0; groups and shapes add nothing.
C3_AdditiveComposition ==
    returned =>
        \A i \in 1..Len(transformed_models) :
            LET m == transformed_models[i]
            IN  /\ m.position = PathSum(m.ipath, Len(m.ipath), 2)
                /\ m.rotation = PathSum(m.ipath, Len(m.ipath), 3)

\* C3 witness: translations (1,0,0) then (0,2,0) gave position (1,2,0)
C3_Witness ==
    /\ returned
    /\ \E i \in 1..Len(transformed_models) :
          LET m == transformed_models[i]
          IN  /\ Len(m.ipath) = 2
              /\ NodeKind(NodeAt(m.ipath, 0)) = "transform"
              /\ NodeKind(NodeAt(m.ipath, 1)) = "transform"
              /\ transforms[NodeAt(m.ipath, 0)][2] = <<1, 0, 0>>
              /\ transforms[NodeAt(m.ipath, 1)][2] = <<0, 2, 0>>
              /\ m.position = <<1, 2, 0>>

\* the longest list of groups (at least 1: a transform has one child)
MaxListLen ==
    LET lens == {Len(groups[n]) : n \in DOMAIN groups} \cup {1}
    IN  CHOOSE l \in lens : \A k \in lens : k <= l

\* the longest list of shapes
MaxEntryLen ==
    LET lens == {Len(shapes[n]) : n \in DOMAIN shapes} \cup {0}
    IN  CHOOSE l \in lens : \A k \in lens : k <= l

\* the (path to a shape node, model-id entry) pairs of the graph
ShapePairs ==
    {<<p, e>> \in SeqsUpTo(1..MaxListLen, RecursionLimit) \X (1..MaxEntryLen) :
        /\ ValidPath(p, Len(p))
        /\ NodeKind(NodeAt(p, Len(p))) = "shape"
        /\ e <= Len(shapes[NodeAt(p, Len(p))])}

\* a comes before b in depth-first order (neither is a prefix of the other)
LexLess(a, b) ==
    \E k \in 1..Len(a) :
        /\ k <= Len(b)
        /\ \A j \in 1..(k - 1) : a[j] = b[j]
        /\ a[k] < b[k]

\* C4: the list solve_scene_graph returns has exactly one instance for each
\* (path from node 0 to a shape node, model-id entry of that node) pair and
\* nothing else, in depth-first order: group children in list order, model
\* ids in list order.  A node's kind is the branch the traversal takes for
\* its id.  Transform 0 -> shape 1 with shapes[1] = [0] and zero translation
\* and rotation gives one instance at (0,0,0) with rotation (0,0,0).
C4_OneInstancePerPath ==
    returned =>
        /\ \A i \in 1..Len(transformed_models) :
              LET m == transformed_models[i]
              IN  /\ <<m.ipath, m.entry>> \in ShapePairs
                  /\ m.model = shapes[NodeAt(m.ipath, Len(m.ipath))][m.entry]
        /\ \A pe \in ShapePairs :
              Cardinality({i \in 1..Len(transformed_models) :
                              /\ transformed_models[i].ipath = pe[1]
                              /\ transformed_models[i].entry = pe[2]}) = 1
        /\ \A i, j \in 1..Len(transformed_models) :
              i < j => LexLess(Append(transformed_models[i].ipath,
                                      transformed_models[i].entry),
                               Append(transformed_models[j].ipath,
                                      transformed_models[j].entry))
        /\ (/\ DOMAIN transforms = {0}
            /\ transforms[0] = <<1, <<0, 0, 0>>, <<0, 0, 0>>>>
            /\ NodeKind(1) = "shape"
            /\ shapes[1] = <<0>>)
           => /\ Len(transformed_models) = 1
              /\ transformed_models[1].model = 0
              /\ transformed_models[1].position = <<0, 0, 0>>
              /\ transformed_models[1].rotation = <<0, 0, 0>>

\* C4 witness: a group with two different shape children, three instances
C4_Witness ==
    /\ returned
    /\ Len(transformed_models) = 3
    /\ \E g \in DOMAIN groups :
          /\ NodeKind(g) = "group"
          /\ groups[g] = <<3, 2>>
          /\ NodeKind(3) = "shape" /\ shapes[3] = <<1, 0>>
          /\ NodeKind(2) = "shape" /\ shapes[2] = <<0>>
    /\ transformed_models[1].model = 1

\* C5: when node id 0 is no key of transforms, solve_scene_graph raises
\* before any traversal and returns no instance, whatever groups, shapes and
\* models hold.
C5_RootMissingRaises ==
    (0 \notin DOMAIN transforms) =>
        /\ pc \in {"parse", "raised"}
        /\ stack = <<>>
        /\ transformed_models = <<>>
        /\ ~returned

\* C5 witness: the error was raised for a graph whose node 0 is a group
C5_Witness ==
    /\ pc = "raised"
    /\ 0 \notin DOMAIN transforms
    /\ 0 \in DOMAIN groups

\* a child id of a reached transform or group is a key of no mapping
DanglingChild == \E n \in Reached({0}, NumNodes) : NodeKind(n) = "none"

\* a reached shape node lists a model id that is no key of models
MissingModel ==
    \E n \in Reached({0}, NumNodes) :
        NodeKind(n) = "shape" /\ ~(Range(shapes[n]) \subseteq models)

\* C6: a referenced child id that is a key of none of transforms, groups and
\* shapes, and a model id of a shape node that is no key of models, are fatal:
\* in neither case does solve_scene_graph return an instance list.
C6_DanglingIsFatal ==
    (0 \in DOMAIN transforms /\ (DanglingChild \/ MissingModel)) => ~returned

\* a node the traversal reaches from node 0 lies on a cycle of child edges
CycleReachable ==
    \E n \in Reached({0}, NumNodes) : n \in Reached(Children(n), NumNodes)

\* solve_scene_graph is over: it returned or an exception left it
SolveOver == pc \in {"done", "raised"}

----------------------------------------------------------------------------
(* Claims about parse_rotation_matrix and the nTRN frame loop              *)

HasRotationKey == DictHas(frames, "_r")

\* int(byte) of the _r value of the frame dict
RotByte == DictGet(frames, "_r")[1]

\* the frame loop has passed the _r key
RotationDone ==
    /\ HasRotationKey
    /\ pc \in {"frames", "decoded"}
    /\ \E i \in 1..Len(frames) : frames[i][1] = "_r" /\ i < frameIdx

\* bit field 0-1, bit field 2-3 and bit 4+i of a rotation value
FieldA(v) == v % 4

FieldB(v) == (v \div 4) % 4

SignBit(v, i) == (v \div (2 ^ (4 + i))) % 2

ValidRotation(v) ==
    FieldA(v) # FieldB(v) /\ FieldA(v) \in 0..2 /\ FieldB(v) \in 0..2

\* the matrix the rotation value v stands for; bit 7 of v is not read
SignedPermutationOf(v) ==
    LET col == <<FieldA(v), FieldB(v), 3 - FieldA(v) - FieldB(v)>>
    IN  [i \in 1..3 |-> [j \in 1..3 |->
            IF j - 1 = col[i]
            THEN (IF SignBit(v, i - 1) = 1 THEN -1 ELSE 1)
            ELSE 0]]

\* exactly one entry of absolute value 1 in every row and every column, the
\* other entries 0
IsSignedPermutation(m) ==
    /\ \A i, j \in 1..3 : m[i][j] \in {-1, 0, 1}
    /\ \A i \in 1..3 : Cardinality({j \in 1..3 : m[i][j] # 0}) = 1
    /\ \A j \in 1..3 : Cardinality({i \in 1..3 : m[i][j] # 0}) = 1

\* C7: for a rotation value whose fields a (bits 0-1) and b (bits 2-3) are
\* distinct values of {0,1,2}, parse_rotation_matrix returns the matrix with
\* row 0 non-zero in column a only, row 1 in column b, row 2 in the remaining
\* column, row i being -1 if bit 4+i is set and +1 otherwise, whatever bit 7
\* is; it has one entry of absolute value 1 per row and per column.  The value
\* 0b00000100 gives the identity, whose Euler angles are all 0.
C7_RotationDecode ==
    (HasRotationKey /\ ValidRotation(RotByte)) =>
        /\ pc # "raised"
        /\ RotationDone =>
              /\ matrix = SignedPermutationOf(RotByte)
              /\ IsSignedPermutation(matrix)
              /\ RotByte = 4 =>
                    /\ matrix = << <<1, 0, 0>>, <<0, 1, 0>>, <<0, 0, 1>> >>
                    /\ trn[3] = <<0, 0, 0>>

\* C7 witness: a value with all three sign bits and bit 7 set was decoded
C7_Witness ==
    /\ RotationDone
    /\ RotByte = 128 + 64 + 32 + 16 + 8 + 1
    /\ matrix = << <<0, -1, 0>>, <<0, 0, -1>>, <<-1, 0, 0>> >>

\* C8: parse_rotation_matrix never returns a matrix that is not a signed
\* permutation matrix: when the two selector fields are equal, or one of them
\* is 3, it raises, returns no matrix, and the nTRN branch stores no rotation
\* for the node.
C8_MalformedRotationRaises ==
    /\ matrix # <<>> => IsSignedPermutation(matrix)
    /\ (HasRotationKey /\ ~ValidRotation(RotByte)) =>
          /\ matrix = <<>>
          /\ pc # "decoded"
          /\ trn # <<>> => trn[3] = <<0, 0, 0>>
          /\ \A i \in 1..Len(frames) :
                frames[i][1] = "_r" => frameIdx <= i

\* C8 witness: the error was raised for equal selector fields
C8_Witness ==
    /\ pc = "raised"
    /\ HasRotationKey
    /\ FieldA(RotByte) = FieldB(RotByte)
    /\ FieldA(RotByte) # 3

----------------------------------------------------------------------------
(* Claims about the MATL decoder                                           *)

\* position of a key in the record
KeyPos(key) == CHOOSE i \in 1..Len(mat_dict) : mat_dict[i][1] = key

\* the current kind once the first i keys of the record are processed:
\* _diffuse, replaced by the value of a _type key among them
KindAt(i) ==
    IF \E j \in 1..i : mat_dict[j][1] = "_type"
    THEN mat_dict[CHOOSE j \in 1..i : mat_dict[j][1] = "_type"][2]
    ELSE "_diffuse"

\* the record has the key, and the kind in force at the key is kind
Gated(key, kind) == DictHas(mat_dict, key) /\ KindAt(KeyPos(key)) = kind

NoDuplicateKeys(content) ==
    \A i, j \in 1..Len(content) : i # j => content[i][1] # content[j][1]

\* C9: decoding a MATL record folds over its keys in on-wire order with a
\* current kind that starts as _diffuse in every record and is replaced by
\* the value of a _type key.  _metal sets metallic only under kind _metal,
\* _alpha sets glass only under _glass, _emit sets emission only under _emit,
\* and otherwise they change no field; _rough always sets roughness and _sp
\* sets specular to value - 1.  A gated key ahead of _type is judged against
\* _diffuse, and the kind of an earlier record is not carried over.
C9_KindGatedFold ==
    /\ pc \in {"keys", "decoded"} =>
          /\ mat_type = KindAt(matIdx - 1)
          /\ NoDuplicateKeys(wire) => mat_dict = wire
    /\ pc = "decoded" =>
          LET before == materialsBefore[MaterialRow(mat_id)]
              after  == materials[MaterialRow(mat_id)]
          IN  /\ after[1] = IF DictHas(mat_dict, "_rough")
                            THEN Float(DictGet(mat_dict, "_rough"))
                            ELSE before[1]
              /\ after[2] = IF Gated("_metal", "_metal")
                            THEN Float(DictGet(mat_dict, "_metal"))
                            ELSE before[2]
              /\ after[3] = IF Gated("_alpha", "_glass")
                            THEN Float(DictGet(mat_dict, "_alpha"))
                            ELSE before[3]
              /\ after[4] = IF Gated("_emit", "_emit")
                            THEN Float(DictGet(mat_dict, "_emit"))
                            ELSE before[4]
              /\ after[5] = IF DictHas(mat_dict, "_sp")
                            THEN Float(DictGet(mat_dict, "_sp")) - 10
                            ELSE before[5]
              /\ (~DictHas(mat_dict, "_flux") /\ ~Gated("_emit", "_emit"))
                    => after[6] = before[6]

\* C9 witness: a _metal key ahead of _type = _metal left metallic unchanged
C9_Witness ==
    /\ pc = "decoded"
    /\ mat_dict = << <<"_metal", "0.7">>, <<"_type", "_metal">> >>
    /\ mat_type = "_metal"
    /\ materials[MaterialRow(mat_id)][2] = 0

\* C10: once a MATL record holding a _flux key is decoded, its flux is the
\* value of _flux, in whatever order _emit and _flux stand in the record.
C10_FluxOverridesBase ==
    (pc = "decoded" /\ DictHas(mat_dict, "_flux")) =>
        materials[MaterialRow(mat_id)][6] = Float(DictGet(mat_dict, "_flux"))

\* C17: over any sequence of MATL chunks the material table has exactly 255
\* records; a chunk with material id > 255 leaves the table unchanged, and a
\* chunk with material id m changes at most the record of color id m (list
\* index m - 1) and no other record, for every signed 32-bit m.
C17_MatlFrame ==
    /\ Len(materials) = 255
    /\ \A i \in 1..Len(materials) :
          materials[i] # materialsBefore[i] => (mat_id <= 255 /\ i = mat_id)

----------------------------------------------------------------------------
(* Claims about import_vox and ImportVox.execute                           *)

\* the parse loop of the file in hand is over and nothing was raised in it
Parsed == ipc \in {"options", "solve", "generate"}

\* the i-th four-byte tuple (1-based) of an RGBA payload, each byte over 255
ChunkColor(payload, i) == [k \in 1..4 |-> <<payload[4 * (i - 1) + k], 255>>]

\* C11: once all chunks of a file are parsed, whatever chunks it held, the
\* palette holds exactly 255 colors, and they are the first 255 four-byte
\* tuples of an RGBA chunk of the file, each byte divided by 255, in file
\* order (the 256th tuple is not among them).
C11_PaletteFixed ==
    Parsed =>
       /\ Len(palette) = 255
       /\ \E c \in 1..Len(rgbaSeen) :
             \A i \in 1..255 : palette[i] = ChunkColor(rgbaSeen[c], i)

\* execute is over: it has returned {"FINISHED"}, or an exception has left it
ExecuteOver == ipc \in {"finished", "raised"}

\* C13: a fatal error while importing one file of the list aborts only that
\* file: when execute is over, import_vox has been called for every path of
\* the list, whether or not an earlier file failed.
C13_LaterFilesImported == ExecuteOver => started = 1..numPaths

\* the exceptions of the header checks and of the byte decoders
FormatErrors == {"struct.error", "AssertionError"}

\* the one header of FileHeaders with the magic 'VOX ', version 150, the
\* tag MAIN and a MAIN payload length of 0
GoodHeader == FileHeader(TagVOX, 150, TagMAIN, 0)

\* the calls the import in hand has made on bpy
OwnCalls == SubSeq(sink, sinkAtCall + 1, Len(sink))

\* C14: every effect of import_vox on the renderer sink comes after the last
\* chunk of the file is decoded: up to the end of the parse loop the import
\* has made no call, a step that makes one is a step of the part after the
\* parse loop, a file whose header is not the good one or whose import ends
\* in a format error has made no call at all, and a mesh is made only once
\* solve_scene_graph has returned.
C14_SinkAfterParse ==
    /\ [](ipc \in {"header", "chunks", "dispatch"} => OwnCalls = <<>>)
    /\ [][sink' # sink => /\ ipc \in {"options", "solve", "generate"}
                          /\ Len(sink') > Len(sink)
                          /\ SubSeq(sink', 1, Len(sink)) = sink]_vars
    /\ []((ipc \notin {"begin", "execute", "header"} /\ header # GoodHeader)
            => (ipc = "raised" /\ error \in FormatErrors /\ OwnCalls = <<>>))
    /\ []((ipc = "raised" /\ error \in FormatErrors) => OwnCalls = <<>>)
    /\ []((\E i \in 1..Len(OwnCalls) : OwnCalls[i] = "mesh")
            => (returned /\ pc = "done"))
    /\ [][(sink' # sink /\ ipc = "generate") => (returned /\ pc = "done")]_vars

\* C14 witness: the second file of a list is aborted by a format error with
\* no call of its own, after the first file's import has made a mesh
C14_Witness ==
    /\ ipc = "raised" /\ error \in FormatErrors
    /\ pathIdx = 2
    /\ OwnCalls = <<>>
    /\ \E i \in 1..Len(sink) : sink[i] = "mesh"

\* C15: the decoder of a recognized chunk consumes the payload exactly: when
\* the branch of a SIZE, XYZI, nTRN, nGRP, nSHP, RGBA or MATL chunk has ended
\* without an exception and the parse loop goes on, no byte of the payload is
\* left unread (a shortfall or a remainder aborts the import).
C15_ExactConsumption ==
    (ipc = "chunks" /\ name \in RecognizedTags) => chunkContent = <<>>

====
